---- MODULE Spec2Model ----
(***************************************************************************)
(* A model of the playlist downloader (download_songs.py) and of the       *)
(* manifest format written by the exporter (playlist-txt.py).              *)
(*                                                                         *)
(* Strings are sequences of one-character strings, so that strip, split,   *)
(* replace, re.sub and translate are computed character by character.     *)
(***************************************************************************)
EXTENDS Integers, Sequences, FiniteSets, TLC

VARIABLES
    pin,          \* input of the pure-function specifications
    pout,         \* result of the pure function applied to pin
    folder,       \* the txt folder: the manifests glob('*.txt') returns, in order
    run,          \* how many times main() has been started
    pc,           \* position of process_txt_folder
    cur,          \* index into txt_files of the loop at line 144
    playlist_name,\* local of process_txt_folder (line 145)
    tracks,       \* local of process_txt_folder (line 145)
    dirs,         \* the directories under mp3/
    files,        \* the files under mp3/: path -> "complete" | "partial"
    existed,      \* the paths that held a file when the current run started
    tasks,        \* per manifest, the futures of line 160-166 and their coroutines
    fanned,       \* manifests whose tasks were submitted in this run
    joined,       \* manifests whose gather (line 167) has returned in this run
    escaped       \* the exception that left process_txt_folder and run, if any

vars == <<pin, pout, folder, run, pc, cur, playlist_name, tracks, dirs, files,
          existed, tasks, fanned, joined, escaped>>

orchVars == <<folder, run, pc, cur, playlist_name, tracks, dirs, files,
              existed, tasks, fanned, joined, escaped>>

-----------------------------------------------------------------------------
(* Python string operations                                                *)

Whitespace == {" ", "\n", "\t"}

RECURSIVE LStrip(_)
LStrip(s) ==
    IF s = <<>> THEN <<>>
    ELSE IF Head(s) \in Whitespace THEN LStrip(Tail(s)) ELSE s

RECURSIVE RStrip(_)
RStrip(s) ==
    IF s = <<>> THEN <<>>
    ELSE IF s[Len(s)] \in Whitespace THEN RStrip(SubSeq(s, 1, Len(s) - 1)) ELSE s

\* str.strip()
Strip(s) == RStrip(LStrip(s))

\* str.startswith(p)
StartsWith(s, p) == Len(s) >= Len(p) /\ SubSeq(s, 1, Len(p)) = p

\* str.find(p) + 1: the first index at which p occurs in s, 0 when it does not
Find(s, p) ==
    LET at == {i \in 1..(Len(s) - Len(p) + 1) : SubSeq(s, i, i + Len(p) - 1) = p}
    IN  IF at = {} THEN 0 ELSE CHOOSE i \in at : \A j \in at : i <= j

\* p in s
Contains(s, p) == Find(s, p) > 0

\* str.split(sep): leftmost, non-overlapping occurrences of a non-empty sep
RECURSIVE Split(_, _)
Split(s, sep) ==
    LET i == Find(s, sep)
    IN  IF i = 0 THEN <<s>>
        ELSE <<SubSeq(s, 1, i - 1)>> \o Split(SubSeq(s, i + Len(sep), Len(s)), sep)

\* str.replace(old, new): every leftmost, non-overlapping occurrence
RECURSIVE Replace(_, _, _)
Replace(s, old, new) ==
    LET i == Find(s, old)
    IN  IF i = 0 THEN s
        ELSE SubSeq(s, 1, i - 1) \o new
             \o Replace(SubSeq(s, i + Len(old), Len(s)), old, new)

-----------------------------------------------------------------------------
(* Constants of the two programs                                           *)

\* "Playlist: " (download_songs.py line 56, playlist-txt.py line 127)
PlaylistPrefix == <<"P", "l", "a", "y", "l", "i", "s", "t", ":", " ">>

\* ' - ' (download_songs.py lines 18, 61, 62, 75)
Dash == <<" ", "-", " ">>

\* lines[5:] (download_songs.py line 60)
HeaderLines == 5

\* max_workers=3 (download_songs.py line 158)
MaxWorkers == 3

\* the character class of re.sub at download_songs.py line 77
UnsafeChars == {"<", ">", ":", "\"", "/", "\\", "|", "?", "*"}

\* the keys of INVALID_CHARS (playlist-txt.py lines 23-26)
InvalidChars == {"/", "\\", "?", "%", "*", ":", "|", "\"", "<", ">"}

\* the forbidden characters of the specification's sanitizer
Forbidden == {"<", ">", ":", "\"", "/", "\\", "|", "?", "*"}

-----------------------------------------------------------------------------
(* Track (download_songs.py lines 11-18)                                   *)

Track(t, a, b) == [title |-> t, artists |-> a, album |-> b]

\* Track.__str__ / PlaylistTrack.__str__
TrackStr(t) == t.title \o Dash \o t.artists \o Dash \o t.album

-----------------------------------------------------------------------------
(* PlaylistDownloader._parse_txt_file                                      *)

\* lines 55-57: the playlist name of the first line
ParseName(first) ==
    LET first_line == Strip(first)
    IN  IF StartsWith(first_line, PlaylistPrefix)
        THEN Strip(Replace(first_line, PlaylistPrefix, <<>>))
        ELSE <<>>

\* the fields taken from the three parts (lines 64-68)
TrackOfParts(parts) == Track(parts[1], parts[2], parts[3])

\* a parser that keeps the first three of more parts
IsTrackPartsAtLeast(parts) == Len(parts) >= 3

\* how many parts make a track (line 63)
IsTrackParts(parts) == Len(parts) = 3

\* lines 61-68: the tracks one content line appends
ParseLine(line) ==
    IF Strip(line) # <<>> /\ Contains(line, Dash)
    THEN LET parts == Split(Strip(line), Dash)
         IN  IF IsTrackParts(parts) THEN <<TrackOfParts(parts)>> ELSE <<>>
    ELSE <<>>

\* lines[5:] (line 60)
ContentLines(lines) == SubSeq(lines, HeaderLines + 1, Len(lines))

RECURSIVE ParseLines(_)
ParseLines(lines) ==
    IF lines = <<>> THEN <<>>
    ELSE ParseLine(Head(lines)) \o ParseLines(Tail(lines))

\* A manifest file is [readable, lines]: whether open() succeeds, and what
\* readlines() returns. An unreadable file raises at line 52 and an empty one
\* at lines[0] (line 55); both are caught at line 69 with nothing assigned yet.
ParseTxtFile(f) ==
    IF ~f.readable \/ f.lines = <<>>
    THEN [playlist_name |-> <<>>, tracks |-> <<>>]
    ELSE [playlist_name |-> ParseName(f.lines[1]),
          tracks |-> ParseLines(ContentLines(f.lines))]

-----------------------------------------------------------------------------
(* The sanitizers                                                          *)

\* re.sub(r'[<>:"/\\|?*]', '', unsafe) (download_songs.py line 77)
ReSub(unsafe) == SelectSeq(unsafe, LAMBDA c : c \notin UnsafeChars)

\* a file name made of str(track), album included
GetSafeFilenameOfStr(track) == ReSub(TrackStr(track))

\* PlaylistDownloader._get_safe_filename
GetSafeFilename(track) == ReSub(track.title \o Dash \o track.artists)

\* SpotifyPlaylistExporter._sanitize_filename: str.translate(INVALID_CHARS)
SanitizeFilename(filename) ==
    [i \in 1..Len(filename) |->
        IF filename[i] \in InvalidChars THEN "-" ELSE filename[i]]

-----------------------------------------------------------------------------
(* The manifest format (playlist-txt.py lines 125-136)                     *)

NL == <<"\n">>

Digits == <<"0", "1", "2", "3", "4", "5", "6", "7", "8", "9">>

\* str(n) of a count below 10
Str(n) == <<Digits[n + 1]>>

OwnerLine == <<"O", "w", "n", "e", "r", ":", " ", "o">> \o NL

PrivacyLine ==
    <<"P", "r", "i", "v", "a", "c", "y", ":", " ", "P", "u", "b", "l", "i", "c">> \o NL

TracksLine(n) == <<"T", "r", "a", "c", "k", "s", ":", " ">> \o Str(n) \o NL

BannerLine ==
    <<"=", "=", "=", " ", "T", "r", "a", "c", "k", "s", " ", "=", "=", "=">> \o NL

\* the five lines written at playlist-txt.py lines 127-130, given the first
HeaderOf(first, n) == <<first, OwnerLine, PrivacyLine, TracksLine(n), NL>>

\* what _export_playlist writes for a playlist of that name and those tracks
ExportLines(name, trackList) ==
    HeaderOf(PlaylistPrefix \o name \o NL, Len(trackList))
    \o <<BannerLine, NL>>
    \o [i \in 1..Len(trackList) |-> TrackStr(trackList[i]) \o NL]

-----------------------------------------------------------------------------
(* Inputs of the parser: a file is described by its first line, the number *)
(* of header lines it has, and its content lines, each given by the        *)
(* segments that ' - ' joins.                                              *)

MaxSegs == 4
MaxLines == 2

\* segments of the one-line files: empty, blank, a dash, a trailing ' -'
Segments == {<<>>, <<"a">>, <<"b">>, <<" ">>, <<"-">>, <<"a", " ", "-">>}

\* segments of the files of several lines
PlainSegments == {<<"a">>, <<"b">>}

SeqsUpTo(S, n) == UNION {[1..k -> S] : k \in 0..n}

PlainLines == {[i \in 1..k |-> seg] : seg \in PlainSegments, k \in 0..MaxSegs}

RECURSIVE JoinDash(_)
JoinDash(segs) ==
    IF segs = <<>> THEN <<>>
    ELSE IF Len(segs) = 1 THEN segs[1]
    ELSE segs[1] \o Dash \o JoinDash(Tail(segs))

FirstLines ==
    { PlaylistPrefix \o <<"p">> \o NL,
      <<" ">> \o PlaylistPrefix \o <<"p", " ">> \o NL,
      PlaylistPrefix \o PlaylistPrefix \o <<"p">> \o NL,
      PlaylistPrefix \o NL,
      <<"P", "l", "a", "y", "l", "i", "s", "t", ":", "p">> \o NL,
      <<"p">> \o NL }

GoodFirst == PlaylistPrefix \o <<"p">> \o NL

ParseInput(readable, first, nheader, content) ==
    [readable |-> readable, first |-> first, nheader |-> nheader, content |-> content]

TwoTracks == << <<<<"a">>, <<"b">>, <<"a">>>>, <<<<"b">>, <<"a">>, <<"b">>>> >>

ParseInputs ==
    \* the header varies: its first line, and how many of its lines there are
    { ParseInput(r, f, k, TwoTracks) :
        r \in BOOLEAN, f \in FirstLines, k \in 0..HeaderLines }
    \cup
    \* one content line of any segments
    { ParseInput(TRUE, GoodFirst, HeaderLines, <<segs>>) :
        segs \in SeqsUpTo(Segments, MaxSegs) }
    \cup
    \* several content lines, each of one plain segment repeated
    { ParseInput(TRUE, GoodFirst, HeaderLines, c) : c \in SeqsUpTo(PlainLines, MaxLines) }

\* readlines() of the file an input describes
LinesOf(in) ==
    SubSeq(HeaderOf(in.first, Len(in.content)), 1, in.nheader)
    \o [i \in 1..Len(in.content) |-> JoinDash(in.content[i]) \o NL]

FileOf(in) == [readable |-> in.readable, lines |-> LinesOf(in)]

\* the result before the function is applied
NotYet == [applied |-> FALSE]

IdleOrch ==
    /\ folder = <<>> /\ run = 0 /\ pc = "idle" /\ cur = 0
    /\ playlist_name = <<>> /\ tracks = <<>> /\ dirs = {} /\ files = <<>>
    /\ existed = {} /\ tasks = <<>> /\ fanned = {} /\ joined = {}
    /\ escaped = "none"

InitParse == pin \in ParseInputs /\ pout = NotYet /\ IdleOrch

\* one call of _parse_txt_file
ApplyParse ==
    /\ pc = "idle" /\ pin \in ParseInputs
    /\ pout' = ParseTxtFile(FileOf(pin))
    /\ pc' = "applied"
    /\ UNCHANGED <<pin, folder, run, cur, playlist_name, tracks, dirs, files,
                   existed, tasks, fanned, joined, escaped>>

SpecParse == InitParse /\ [][ApplyParse]_vars

-----------------------------------------------------------------------------
(* C8: parser exactness                                                    *)

\* the places of the leftmost, non-overlapping ' - ' of s, from index `from`
RECURSIVE CutsFrom(_, _)
CutsFrom(s, from) ==
    LET at == {i \in from..(Len(s) - 2) : SubSeq(s, i, i + 2) = Dash}
    IN  IF at = {} THEN <<>>
        ELSE LET i == CHOOSE x \in at : \A y \in at : x <= y
             IN  <<i>> \o CutsFrom(s, i + 3)

\* the k-th segment of s between those places
SegmentAt(s, cuts, k) ==
    SubSeq(s, IF k = 1 THEN 1 ELSE cuts[k - 1] + 3,
              IF k > Len(cuts) THEN Len(s) ELSE cuts[k] - 1)

\* what the claim says one content line yields
ExactTracksOfLine(line) ==
    LET t == Strip(line)
        cuts == CutsFrom(t, 1)
    IN  IF t # <<>> /\ Len(cuts) = 2
        THEN <<[title |-> SegmentAt(t, cuts, 1),
                artists |-> SegmentAt(t, cuts, 2),
                album |-> SegmentAt(t, cuts, 3)]>>
        ELSE <<>>

RECURSIVE ExactTracks(_, _)
ExactTracks(lines, i) ==
    IF i > Len(lines) THEN <<>>
    ELSE (IF i > 5 THEN ExactTracksOfLine(lines[i]) ELSE <<>>)
         \o ExactTracks(lines, i + 1)

\* segments that ' - ' joins without making or hiding a separator, and that
\* strip() leaves alone at the two ends of the line
CleanSegs(segs) ==
    /\ segs # <<>>
    /\ \A i \in 1..Len(segs) :
        /\ ~Contains(segs[i], Dash)
        /\ ~(Len(segs[i]) >= 2 /\ SubSeq(segs[i], Len(segs[i]) - 1, Len(segs[i])) = <<" ", "-">>)
    /\ segs[1] # <<>> /\ segs[1][1] \notin Whitespace
    /\ segs[Len(segs)] # <<>>
    /\ segs[Len(segs)][Len(segs[Len(segs)])] \notin Whitespace

RECURSIVE TracksOfSegs(_)
TracksOfSegs(content) ==
    IF content = <<>> THEN <<>>
    ELSE (IF Len(Head(content)) = 3
          THEN <<[title |-> Head(content)[1], artists |-> Head(content)[2],
                  album |-> Head(content)[3]]>>
          ELSE <<>>)
         \o TracksOfSegs(Tail(content))

\* C8: a content line after the five header lines yields a Track exactly
\* when, trimmed, it is non-empty and ' - ' splits it into three segments, and
\* the Track is (segment 1, segment 2, segment 3); the tracks come in the
\* order of the lines. In particular a line "A - B - C" yields Track(A, B, C)
\* and a line of 2 or 4 (or any other number of) segments yields nothing.
C8_ParserExact ==
    (pc = "applied" /\ pin \in ParseInputs /\ pin.readable /\ LinesOf(pin) # <<>>)
    => /\ pout.tracks = ExactTracks(LinesOf(pin), 1)
       /\ (pin.nheader = 5 /\ \A i \in 1..Len(pin.content) :
                                   pin.content[i] = <<>> \/ CleanSegs(pin.content[i]))
          => pout.tracks = TracksOfSegs(pin.content)

\* a file whose first content line has four segments and whose second has
\* three: one track, the second line's
C8_Witness ==
    /\ pc = "applied" /\ pin \in ParseInputs
    /\ pin.content = << <<<<"a">>, <<"a">>, <<"a">>, <<"a">>>>, <<<<"b">>, <<"b">>, <<"b">>>> >>
    /\ pout.tracks = <<[title |-> <<"b">>, artists |-> <<"b">>, album |-> <<"b">>]>>

-----------------------------------------------------------------------------
(* The sanitizers as functions of any string                               *)

MaxStrLen == 2

SanChars == {"a", ":", "/"}

SanInputs ==
    [title : SeqsUpTo(SanChars, MaxStrLen),
     artists : SeqsUpTo(SanChars, MaxStrLen),
     album : SeqsUpTo({"a"}, 1)]

InitSanitize == pin \in SanInputs /\ pout = NotYet /\ IdleOrch

\* _get_safe_filename of the track, and _sanitize_filename of its title
ApplySanitize ==
    /\ pc = "idle" /\ pin \in SanInputs
    /\ pout' = [safe |-> GetSafeFilename(pin), name |-> SanitizeFilename(pin.title)]
    /\ pc' = "applied"
    /\ UNCHANGED <<pin, folder, run, cur, playlist_name, tracks, dirs, files,
                   existed, tasks, fanned, joined, escaped>>

SpecSanitize == InitSanitize /\ [][ApplySanitize]_vars

HasNoForbidden(s) == \A i \in 1..Len(s) : s[i] \notin Forbidden

\* C9: for every input, each sanitizer returns a non-empty string that holds
\* none of the forbidden characters.
C9_SanitizerTotal ==
    (pc = "applied" /\ pin \in SanInputs)
    => /\ pout.safe # <<>> /\ HasNoForbidden(pout.safe)
       /\ pout.name # <<>> /\ HasNoForbidden(pout.name)

-----------------------------------------------------------------------------
(* The txt folder process_txt_folder runs on                               *)

\* the size of the txt folder: a track line counts one and a manifest two
MaxFolderSize == 6

\* how many times the program is run on the same txt and mp3 folders
NumRuns == 2

PoolTitles == << <<"a">>, <<"a">>, <<"a", ":">>, <<"b">> >>

\* The k-th track line of the folder. The second has the first's title and
\* artists and another album; the third differs from the first by a
\* character the sanitizer removes.
PoolTrack(k) ==
    Track(PoolTitles[((k - 1) % 4) + 1], <<"x">>,
          IF (k - 1) % 4 = 1 THEN <<"q">> ELSE <<"p">>)

PoolSlice(from, n) == [i \in 1..n |-> PoolTrack(from + i - 1)]

\* kinds of manifest: as exported, of a playlist called "p"; exported but
\* for the prefix of its first line; as exported, of a playlist called "p:"
\* that has no track; of no lines; one open() fails on
TrackKinds == {"good", "noprefix"}
BareKinds == {"colon", "empty", "unreadable"}

\* the kinds _parse_txt_file finds a playlist name in
NamedKinds == {"good", "colon"}

Manifest(kind, from, n) == [kind |-> kind, from |-> from, n |-> n]

RECURSIVE FoldersOf(_, _)
FoldersOf(budget, from) ==
    {<<>>} \cup
    UNION { { <<Manifest(k, from, n)>> \o rest :
                rest \in FoldersOf(budget - 2 - n, from + n) } :
            k \in TrackKinds, n \in 0..(budget - 2) }
    \cup
    UNION { { <<Manifest(k, from, 0)>> \o rest : rest \in FoldersOf(budget - 2, from) } :
            k \in IF budget >= 2 THEN BareKinds ELSE {} }

Folders == FoldersOf(MaxFolderSize, 1)

\* playlist_details['name'] of the exported playlist (playlist-txt.py line 127)
PlaylistNameOf(d) == IF d.kind = "colon" THEN <<"p", ":">> ELSE <<"p">>

\* the file of a manifest: whether open() succeeds and what readlines() returns
ManifestFile(d) ==
    LET exported == ExportLines(PlaylistNameOf(d), PoolSlice(d.from, d.n))
    IN  CASE d.kind \in NamedKinds -> [readable |-> TRUE, lines |-> exported]
          [] d.kind = "noprefix" ->
                [readable |-> TRUE, lines |-> [exported EXCEPT ![1] = <<"p">> \o NL]]
          [] d.kind = "empty" -> [readable |-> TRUE, lines |-> <<>>]
          [] d.kind = "unreadable" -> [readable |-> FALSE, lines |-> exported]

\* what _parse_txt_file returns for each manifest of the folders
ParsedFiles ==
    [d \in UNION {{f[i] : i \in 1..Len(f)} : f \in Folders} |->
        ParseTxtFile(ManifestFile(d))]

-----------------------------------------------------------------------------
(* process_txt_folder and _download_track                                  *)

\* a check of the template's name instead of the file's
OutputPathOfTemplate(name, track) ==
    [dir |-> name, stem |-> GetSafeFilename(track), ext |-> "%(ext)s"]

\* output_path (line 106)
OutputPath(name, track) ==
    [dir |-> name, stem |-> GetSafeFilename(track), ext |-> "mp3"]

\* outtmpl (line 121): output_path.with_suffix('.%(ext)s')
OutTmpl(output_path) == [output_path EXCEPT !.ext = "%(ext)s"]

\* the file FFmpegExtractAudio leaves for that template (lines 37-41)
FetchTarget(outtmpl) == [outtmpl EXCEPT !.ext = "mp3"]

\* output_path.exists() (line 109)
Exists(output_path) == output_path \in DOMAIN files

\* a future of line 161 and the coroutine it runs
NewTask(track) ==
    [track |-> track, playlist |-> playlist_name, st |-> "Pending",
     output_path |-> <<>>, report |-> <<>>,
     resolver_calls |-> 0, fetcher_calls |-> 0, writes |-> 0, raised |-> FALSE]

Outcomes == {"Skipped", "Downloaded", "NotFound", "FetchFailed"}

Manifests == 1..Len(folder)

TaskIds == {<<m, i>> \in Manifests \X (1..MaxFolderSize) : i <= Len(tasks[m])}

\* the tasks of manifest m inside _search_and_get_url or ydl.download
InFlight(m) == {i \in 1..Len(tasks[m]) : tasks[m][i].st \in {"Resolving", "Fetching"}}

AllDone(m) == \A i \in 1..Len(tasks[m]) : tasks[m][i].st = "Done"

Init ==
    /\ pin = NotYet /\ pout = NotYet
    /\ folder \in Folders
    /\ run = 1
    /\ pc = "start"
    /\ cur = 0
    /\ playlist_name = <<>>
    /\ tracks = <<>>
    /\ dirs = {}
    /\ files = <<>>
    /\ existed = {}
    /\ tasks = [m \in 1..Len(folder) |-> <<>>]
    /\ fanned = {}
    /\ joined = {}
    /\ escaped = "none"

\* the loop of line 144 moves to the next file, or ends
NextFile ==
    /\ cur' = cur + 1
    /\ pc' = IF cur + 1 > Len(folder) THEN "done" ELSE "parse"

\* lines 135-142: nothing to do without txt files
StartRun ==
    /\ pc = "start"
    /\ IF folder = <<>>
       THEN pc' = "done" /\ cur' = cur
       ELSE pc' = "parse" /\ cur' = 1
    /\ UNCHANGED <<pin, pout, folder, run, playlist_name, tracks, dirs, files,
                   existed, tasks, fanned, joined, escaped>>

\* `if not playlist_name` (line 146)
SkipsManifest(name) == name = <<>>

\* `break` in the place of `continue`
Break == pc' = "done" /\ cur' = cur

\* `continue` (line 148)
Continue == NextFile

\* lines 145-148
ParseManifest ==
    /\ pc = "parse"
    /\ LET parsed == ParsedFiles[folder[cur]]
       IN  /\ playlist_name' = parsed.playlist_name
           /\ tracks' = parsed.tracks
           /\ IF SkipsManifest(parsed.playlist_name)
              THEN Continue
              ELSE pc' = "mkdir" /\ cur' = cur
    /\ UNCHANGED <<pin, pout, folder, run, dirs, files, existed, tasks, fanned,
                   joined, escaped>>

\* lines 151-166: the folder is made and every track is submitted
MkdirAndSubmit ==
    /\ pc = "mkdir"
    /\ dirs' = dirs \cup {playlist_name}
    /\ tasks' = [tasks EXCEPT ![cur] = [i \in 1..Len(tracks) |-> NewTask(tracks[i])]]
    /\ fanned' = fanned \cup {cur}
    /\ pc' = "gather"
    /\ UNCHANGED <<pin, pout, folder, run, cur, playlist_name, tracks, files,
                   existed, joined, escaped>>

\* line 152 raises OSError: nothing catches it before main (line 179)
MkdirRaises ==
    /\ pc = "mkdir"
    /\ playlist_name \notin dirs
    /\ escaped' = "mkdir"
    /\ pc' = "aborted"
    /\ UNCHANGED <<pin, pout, folder, run, cur, playlist_name, tracks, dirs,
                   files, existed, tasks, fanned, joined>>


\* a pool that starts a thread for every task
AlwaysIdleWorker(m) == TRUE

\* ThreadPoolExecutor(max_workers=3) (line 158): a worker is free
HasIdleWorker(m) == Cardinality(InFlight(m)) < MaxWorkers

\* line 114: _search_and_get_url is entered
CallResolver(t) == [t EXCEPT !.st = "Resolving", !.resolver_calls = @ + 1]

\* lines 123-125: ydl.download is entered
CallFetcher(t) == [t EXCEPT !.st = "Fetching", !.fetcher_calls = @ + 1]

\* "Already exists" without the return
SkipExistingNoReturn(t) == CallResolver([t EXCEPT !.report = Append(@, "Skipped")])

\* lines 109-111: "Already exists", return
SkipExisting(t) == [t EXCEPT !.st = "Done", !.report = Append(@, "Skipped")]

\* "Could not find video for" without the return: download([None]) follows
NotFoundNoReturn(t) == CallFetcher([t EXCEPT !.report = Append(@, "NotFound")])

\* lines 115-117: "Could not find video for", return
NotFound(t) == [t EXCEPT !.st = "Done", !.report = Append(@, "NotFound")]

\* line 126: "Downloaded"
Downloaded(t) == [t EXCEPT !.st = "Done", !.report = Append(@, "Downloaded")]

\* the exception of ydl.download left to the future
DownloadErrorRaised(t) == [t EXCEPT !.st = "Done", !.raised = TRUE]

\* the fetch tried again after an error
DownloadErrorRetry(t) == CallFetcher(t)

\* lines 127-128: "Error downloading"
DownloadError(t) == [t EXCEPT !.st = "Done", !.report = Append(@, "FetchFailed")]

\* A worker takes the oldest queued task and runs _download_track up to its
\* first call out (lines 105-114).
StartTask(m, i) ==
    /\ m \in fanned
    /\ i \in 1..Len(tasks[m])
    /\ tasks[m][i].st = "Pending"
    /\ \A j \in 1..(i - 1) : tasks[m][j].st # "Pending"
    /\ HasIdleWorker(m)
    /\ LET output_path == OutputPath(playlist_name, tasks[m][i].track)
           t == [tasks[m][i] EXCEPT !.output_path = output_path]
       IN  tasks' = [tasks EXCEPT ![m][i] =
                        IF Exists(output_path) THEN SkipExisting(t) ELSE CallResolver(t)]
    /\ UNCHANGED <<pin, pout, folder, run, pc, cur, playlist_name, tracks, dirs,
                   files, existed, fanned, joined, escaped>>

\* _search_and_get_url returns (lines 91-100): the first entry's url, or None
\* when there is no entry or when extract_info raised; then lines 115-125.
ResolverReturns(m, i) ==
    /\ m \in fanned
    /\ i \in 1..Len(tasks[m])
    /\ tasks[m][i].st = "Resolving"
    /\ \E video_url \in {"url", "none", "raised"} :
         tasks' = [tasks EXCEPT ![m][i] =
                      IF video_url = "url" THEN CallFetcher(@) ELSE NotFound(@)]
    /\ UNCHANGED <<pin, pout, folder, run, pc, cur, playlist_name, tracks, dirs,
                   files, existed, fanned, joined, escaped>>

\* ydl.download returns or raises (lines 125-128). yt_dlp is not part of the
\* program: it may leave the finished file, nothing, or what the transcoder
\* had written when it stopped, under the name the template gives; with
\* 'ignoreerrors' (line 44) it may also return after an error.
FetchReturns(m, i) ==
    /\ m \in fanned
    /\ i \in 1..Len(tasks[m])
    /\ tasks[m][i].st = "Fetching"
    /\ \E how \in {"ok", "ignored", "raised"}, left \in {"complete", "partial", "none"} :
         /\ (how = "ok") <=> (left = "complete")
         /\ LET target == FetchTarget(OutTmpl(tasks[m][i].output_path))
                t == [tasks[m][i] EXCEPT !.writes = IF left = "none" THEN @ ELSE @ + 1]
            IN  /\ files' = IF left = "none" THEN files ELSE (target :> left) @@ files
                /\ tasks' = [tasks EXCEPT ![m][i] =
                                IF how = "raised" THEN DownloadError(t) ELSE Downloaded(t)]
    /\ UNCHANGED <<pin, pout, folder, run, pc, cur, playlist_name, tracks, dirs,
                   existed, fanned, joined, escaped>>

\* futures that are made and not awaited
NotAwaited(m) == TRUE

\* what `await asyncio.gather(*tasks)` and the executor's exit wait for
\* (lines 158-167)
Awaited(m) == AllDone(m)

\* gather returns, or raises what a task raised; the loop goes on
GatherReturns ==
    /\ pc = "gather"
    /\ Awaited(cur)
    /\ IF \E i \in 1..Len(tasks[cur]) : tasks[cur][i].raised
       THEN /\ escaped' = "track" /\ pc' = "aborted"
            /\ UNCHANGED <<cur, joined>>
       ELSE /\ joined' = joined \cup {cur}
            /\ NextFile
            /\ escaped' = escaped
    /\ UNCHANGED <<pin, pout, folder, run, playlist_name, tracks, dirs, files,
                   existed, tasks, fanned>>

\* the program is started again on the same folders
NextRun ==
    /\ pc \in {"done", "aborted"}
    /\ run < NumRuns
    /\ run' = run + 1
    /\ pc' = "start"
    /\ cur' = 0
    /\ playlist_name' = <<>>
    /\ tracks' = <<>>
    /\ existed' = DOMAIN files
    /\ tasks' = [m \in 1..Len(folder) |-> <<>>]
    /\ fanned' = {}
    /\ joined' = {}
    /\ escaped' = "none"
    /\ UNCHANGED <<pin, pout, folder, dirs, files>>

Next ==
    \/ StartRun
    \/ ParseManifest
    \/ MkdirAndSubmit
    \/ MkdirRaises
    \/ \E m \in Manifests, i \in 1..MaxFolderSize : StartTask(m, i)
    \/ \E m \in Manifests, i \in 1..MaxFolderSize : ResolverReturns(m, i)
    \/ \E m \in Manifests, i \in 1..MaxFolderSize : FetchReturns(m, i)
    \/ GatherReturns
    \/ NextRun

Spec == Init /\ [][Next]_vars

-----------------------------------------------------------------------------
(* Properties of process_txt_folder                                         *)

TaskOf(id) == tasks[id[1]][id[2]]

\* <playlist folder>/<safe filename>.mp3 of a task's track
TargetOf(t) == [dir |-> t.playlist, stem |-> GetSafeFilename(t.track), ext |-> "mp3"]

\* the manifests the claims call unreadable, empty or without the prefix
BadManifest(m) == folder[m].kind \in {"unreadable", "empty", "noprefix"}

Count(m, outcome) ==
    Cardinality({i \in 1..Len(tasks[m]) : tasks[m][i].report = <<outcome>>})

\* C1 as stated: when the second run has ended, every track of every
\* playlist it ran is Skipped, and neither the Resolver nor the Fetcher was
\* called for it.
C1_SecondRunAllSkipped ==
    (run = 2 /\ pc = "done")
    => \A id \in TaskIds :
        /\ TaskOf(id).report = <<"Skipped">>
        /\ TaskOf(id).resolver_calls = 0
        /\ TaskOf(id).fetcher_calls = 0

\* C1 as amended: in a later run over the same folders, every track whose
\* target file existed when that run started ends Skipped, and neither
\* the Resolver nor the Fetcher is called for it.
C1_ExistingSkippedOnRerun ==
    run >= 2
    => \A id \in TaskIds :
        TargetOf(TaskOf(id)) \in existed
        => /\ TaskOf(id).resolver_calls = 0
           /\ TaskOf(id).fetcher_calls = 0
           /\ TaskOf(id).st \in {"Pending", "Done"}
           /\ TaskOf(id).st = "Done" => TaskOf(id).report = <<"Skipped">>
           /\ pc = "done" => TaskOf(id).st = "Done"

\* a second run has ended in which every track of a playlist of two or more
\* tracks was skipped, their files being there from the first run
C1_Witness ==
    /\ run = 2 /\ pc = "done"
    /\ \E m \in joined :
        /\ Len(tasks[m]) >= 2
        /\ \A i \in 1..Len(tasks[m]) :
            /\ tasks[m][i].report = <<"Skipped">>
            /\ TargetOf(tasks[m][i]) \in existed

\* the step in which a worker finds the target file of its track: the track
\* is reported Skipped by that very step, which leaves the files as they are
C2_SkipStep ==
    \A m \in Manifests : \A i \in 1..MaxFolderSize :
        (/\ i <= Len(tasks[m]) /\ i <= Len(tasks'[m])
         /\ tasks[m][i].st = "Pending" /\ tasks'[m][i].st # "Pending"
         /\ TargetOf(tasks[m][i]) \in DOMAIN files)
        => /\ tasks'[m][i].st = "Done"
           /\ tasks'[m][i].report = <<"Skipped">>
           /\ files' = files

\* a track reported Skipped has had no Resolver call and no Fetcher call, has
\* written nothing, and its file is there
C2_SkippedUntouched ==
    \A id \in TaskIds :
        "Skipped" \in {TaskOf(id).report[k] : k \in 1..Len(TaskOf(id).report)}
        => /\ TaskOf(id).resolver_calls = 0
           /\ TaskOf(id).fetcher_calls = 0
           /\ TaskOf(id).writes = 0
           /\ TargetOf(TaskOf(id)) \in DOMAIN files

\* C2: a track whose target file exists when its worker checks it is
\* reported Skipped by that very step, which leaves the files as they are;
\* and a track reported Skipped has had no Resolver call and no Fetcher call,
\* has written nothing, and its file is there.
C2_ExistingIsSkipped == [][C2_SkipStep]_vars /\ []C2_SkippedUntouched

\* a track was skipped in the first run because another track of the same
\* file name had been downloaded
C2_Witness ==
    /\ run = 1
    /\ \E id \in TaskIds :
        /\ TaskOf(id).report = <<"Skipped">>
        /\ files[TargetOf(TaskOf(id))] = "complete"

\* C3: a track's failure stays with the track. No exception of a task leaves
\* process_txt_folder (only mkdir's does), and when gather has returned every
\* track of the playlist has its own outcome, whatever the others'.
C3_FailureIsolated ==
    /\ escaped # "track"
    /\ pc = "aborted" => escaped = "mkdir"
    /\ \A id \in TaskIds : ~TaskOf(id).raised
    /\ \A m \in joined : \A i \in 1..Len(tasks[m]) :
        tasks[m][i].st = "Done" /\ Len(tasks[m][i].report) = 1

\* a playlist has been gathered whose second track was not found and whose
\* third could not be fetched, the first and the fourth being downloaded
C3_Witness ==
    /\ pc = "done" /\ escaped = "none"
    /\ \E m \in joined :
        /\ Len(tasks[m]) = 4
        /\ tasks[m][1].report = <<"Downloaded">>
        /\ tasks[m][2].report = <<"NotFound">>
        /\ tasks[m][3].report = <<"FetchFailed">>
        /\ tasks[m][4].report = <<"Downloaded">>

\* C4: at most max_workers tracks are inside the Resolver or the Fetcher at
\* the same time, in a playlist and over all playlists.
C4_WorkerCap ==
    Cardinality({id \in TaskIds : TaskOf(id).st \in {"Resolving", "Fetching"}})
        <= MaxWorkers

\* three tracks are in flight and a fourth waits for a worker
C4_Witness ==
    \E m \in Manifests :
        /\ Cardinality(InFlight(m)) = MaxWorkers
        /\ \E i \in 1..Len(tasks[m]) : tasks[m][i].st = "Pending"

\* C5: every track of a playlist whose tasks were submitted gets exactly one
\* outcome, one of the four: never two, none once its task has ended, and
\* when gather has returned the counts per outcome add up to the number of
\* tracks of the manifest; a run that ends has gathered every named playlist.
C5_OneOutcome ==
    /\ \A id \in TaskIds :
        /\ Len(TaskOf(id).report) <= 1
        /\ TaskOf(id).st = "Done" <=> Len(TaskOf(id).report) = 1
        /\ \A k \in 1..Len(TaskOf(id).report) : TaskOf(id).report[k] \in Outcomes
    /\ \A m \in fanned : Len(tasks[m]) = folder[m].n
    /\ \A m \in joined :
        Count(m, "Skipped") + Count(m, "Downloaded") + Count(m, "NotFound")
            + Count(m, "FetchFailed") = folder[m].n
    /\ pc = "done" => \A m \in Manifests : folder[m].kind \in NamedKinds => m \in joined

\* a gathered playlist of four tracks with one outcome of each kind
C5_Witness ==
    \E m \in joined :
        /\ folder[m].n = 4
        /\ \A o \in Outcomes : Count(m, o) = 1

\* C6: tracks are only queued or in flight for the manifest whose gather
\* is awaited; a gathered playlist has no unfinished task, and neither has a
\* run that has ended.
C6_GatherWaits ==
    /\ \A id \in TaskIds :
        TaskOf(id).st # "Done" => (pc = "gather" /\ cur = id[1])
    /\ \A m \in joined : AllDone(m)
    /\ \A m \in Manifests : m > cur => tasks[m] = <<>>

\* the second playlist's track is in flight, after the first's has ended
C6_Witness ==
    /\ Len(folder) >= 2
    /\ 1 \in joined /\ Len(tasks[1]) >= 1
    /\ cur = 2 /\ InFlight(2) # {}

\* C7: a file under a final name is either one that was there when the run
\* started or the complete result of a fetch.
C7_NoPartialFinalFile ==
    \A path \in DOMAIN files : path \in existed \/ files[path] = "complete"

\* C10: an unreadable or empty manifest, or one whose first line lacks the
\* prefix, gives an empty playlist name; nothing is created, submitted,
\* resolved or fetched for it, the loop never ends at it, and a run that
\* ends has processed every other manifest.
C10_BadManifestSkipped ==
    /\ \A m \in Manifests :
        BadManifest(m)
        => /\ tasks[m] = <<>> /\ m \notin fanned
           /\ cur = m => pc = "parse"
           /\ (cur = m + 1 /\ pc \in {"parse", "done"}) => playlist_name = <<>>
    /\ <<>> \notin dirs
    /\ (run = 1 /\ fanned = {}) => (dirs = {} /\ files = <<>>)
    /\ pc = "done" => \A m \in Manifests : ~BadManifest(m) => m \in joined
    /\ pc = "aborted" => (escaped = "mkdir" /\ ~BadManifest(cur))

\* a run has ended in which a playlist was run after a manifest was skipped
C10_Witness ==
    /\ pc = "done"
    /\ \E m1, m2 \in Manifests :
        /\ m1 < m2 /\ BadManifest(m1)
        /\ m2 \in joined /\ Len(tasks[m2]) >= 1
        /\ \E i \in 1..Len(tasks[m2]) : tasks[m2][i].report = <<"Downloaded">>

\* C11: when the output directory of a playlist cannot be made, none of that
\* playlist's tracks is submitted, resolved or fetched, the error is
\* surfaced, and every later manifest is still processed: a run that has
\* stopped has been through every manifest of the folder.
C11_MkdirFailureLocal ==
    /\ escaped = "mkdir" => (tasks[cur] = <<>> /\ cur \notin fanned)
    /\ pc \in {"done", "aborted"} => \A m \in Manifests : m <= cur

\* the steps of one track: Pending to Skipped or to Resolving, Resolving to
\* NotFound or to Fetching, Fetching to Downloaded or to FetchFailed; a call
\* counts once, and a track that has its outcome does not change any more
C12_TrackStep ==
    \A m \in Manifests : \A i \in 1..MaxFolderSize :
        (i <= Len(tasks[m]) /\ i <= Len(tasks'[m]) /\ tasks'[m][i] # tasks[m][i])
        => LET t == tasks[m][i]
               u == tasks'[m][i]
           IN  CASE t.st = "Pending" ->
                        \/ u.st = "Done" /\ u.report = <<"Skipped">>
                           /\ u.resolver_calls = 0 /\ u.fetcher_calls = 0
                        \/ u.st = "Resolving" /\ u.report = <<>>
                           /\ u.resolver_calls = 1 /\ u.fetcher_calls = 0
                 [] t.st = "Resolving" ->
                        \/ u.st = "Done" /\ u.report = <<"NotFound">>
                           /\ u.resolver_calls = 1 /\ u.fetcher_calls = 0
                        \/ u.st = "Fetching" /\ u.report = <<>>
                           /\ u.resolver_calls = 1 /\ u.fetcher_calls = 1
                 [] t.st = "Fetching" ->
                        /\ u.st = "Done"
                        /\ u.report \in {<<"Downloaded">>, <<"FetchFailed">>}
                        /\ u.resolver_calls = 1 /\ u.fetcher_calls = 1
                 [] OTHER -> FALSE

\* where a track is, given the calls made for it
C12_TrackState ==
    \A id \in TaskIds :
        LET t == TaskOf(id)
        IN  /\ t.st \in {"Pending", "Resolving", "Fetching", "Done"}
            /\ t.resolver_calls <= 1 /\ t.fetcher_calls <= 1
            /\ t.fetcher_calls <= t.resolver_calls
            /\ t.st = "Pending" => (t.resolver_calls = 0 /\ t.report = <<>>)
            /\ t.st = "Resolving" => (t.resolver_calls = 1 /\ t.fetcher_calls = 0)
            /\ t.st = "Fetching" => (t.fetcher_calls = 1 /\ t.report = <<>>)
            /\ t.report \in {<<"Skipped">>, <<"NotFound">>} => t.fetcher_calls = 0
            /\ t.report \in {<<"Downloaded">>, <<"FetchFailed">>} => t.fetcher_calls = 1

\* C12: every track goes Pending -> (Skipped | Resolving -> (NotFound |
\* Fetching -> (Downloaded | FetchFailed))): the Fetcher is entered only from
\* the Resolver's return, an outcome once reported is never left, and in one
\* run the Resolver and the Fetcher are each called at most once for a track.
C12_TrackStateMachine == [][C12_TrackStep]_vars /\ []C12_TrackState

\* one playlist has a track that was skipped, one that was not found, one that
\* was downloaded and one whose fetch failed
C12_Witness ==
    \E m \in joined :
        /\ \E i \in 1..Len(tasks[m]) :
            tasks[m][i].report = <<"Skipped">> /\ tasks[m][i].resolver_calls = 0
        /\ \E i \in 1..Len(tasks[m]) :
            tasks[m][i].report = <<"NotFound">> /\ tasks[m][i].fetcher_calls = 0
        /\ \E i \in 1..Len(tasks[m]) :
            tasks[m][i].report = <<"Downloaded">> /\ tasks[m][i].fetcher_calls = 1
        /\ \E i \in 1..Len(tasks[m]) :
            tasks[m][i].report = <<"FetchFailed">> /\ tasks[m][i].resolver_calls = 1

\* C13: a track reported Downloaded has its file: whenever the outcome of a
\* track is Downloaded, <playlist folder>/<safe filename>.mp3 exists; a fetch
\* that left no file is not reported Downloaded.
C13_DownloadedHasFile ==
    \A id \in TaskIds :
        TaskOf(id).report = <<"Downloaded">> => TargetOf(TaskOf(id)) \in DOMAIN files

\* the step in which the Fetcher is started for a track: no file is at the
\* track's target path at that moment
C14_FetchStart ==
    \A m \in Manifests : \A i \in 1..MaxFolderSize :
        (/\ i <= Len(tasks[m]) /\ i <= Len(tasks'[m])
         /\ tasks[m][i].st # "Fetching" /\ tasks'[m][i].st = "Fetching")
        => TargetOf(tasks[m][i]) \notin DOMAIN files

\* C14: within a run the Fetcher is never started for a target path at which
\* a file of the final name exists at that moment, whatever the playlist
\* (one that lists the same title and artists twice included) and however
\* the workers interleave.
C14_NeverRefetched == [][C14_FetchStart]_vars

\* C15: at no time are two workers of one playlist both inside the Fetcher
\* for the same target path, whatever the tracks parsed (tracks that differ
\* only in album or only in stripped characters included).
C15_NoSharedTarget ==
    \A m \in Manifests : \A i, j \in InFlight(m) :
        (i # j /\ tasks[m][i].st = "Fetching" /\ tasks[m][j].st = "Fetching")
        => TargetOf(tasks[m][i]) # TargetOf(tasks[m][j])

\* C16: the directory made for a playlist under the mp3 folder has a name
\* that holds none of the forbidden characters, whatever the playlist name
\* parsed from the manifest.
C16_DirNameSanitized == \A d \in dirs : HasNoForbidden(d)

\* C17: the target file of a track depends on its title and artists alone:
\* two tracks of a playlist with equal title and equal artists have the same
\* output path, whatever their albums, and the file one of them has written
\* is the file at the other's output path.
C17_NameOfTitleAndArtists ==
    \A id1, id2 \in TaskIds :
        LET t1 == TaskOf(id1)
            t2 == TaskOf(id2)
        IN  (/\ t1.output_path # <<>> /\ t2.output_path # <<>>
             /\ t1.playlist = t2.playlist
             /\ t1.track.title = t2.track.title
             /\ t1.track.artists = t2.track.artists)
            => /\ t1.output_path = t2.output_path
               /\ t1.writes > 0 => t2.output_path \in DOMAIN files

\* two tracks of one playlist with the same title and artists and different
\* albums have both been started: one was downloaded, the other skipped
C17_Witness ==
    \E id1, id2 \in TaskIds :
        /\ id1[1] = id2[1]
        /\ TaskOf(id1).track.title = TaskOf(id2).track.title
        /\ TaskOf(id1).track.artists = TaskOf(id2).track.artists
        /\ TaskOf(id1).track.album # TaskOf(id2).track.album
        /\ TaskOf(id1).report = <<"Downloaded">>
        /\ TaskOf(id2).report = <<"Skipped">>
        /\ TaskOf(id1).output_path = TaskOf(id2).output_path

\* C18: two tracks of a playlist whose (title, artists) pairs differ never
\* have the same target file, and no track is reported Skipped for a file
\* that a track of another (title, artists) pair has written.
C18_CollisionSafe ==
    \A id1, id2 \in TaskIds :
        LET t1 == TaskOf(id1)
            t2 == TaskOf(id2)
        IN  (/\ t1.output_path # <<>> /\ t2.output_path # <<>>
             /\ t1.playlist = t2.playlist
             /\ <<t1.track.title, t1.track.artists>> # <<t2.track.title, t2.track.artists>>)
            => /\ t1.output_path # t2.output_path
               /\ ~(t1.report = <<"Skipped">> /\ t2.writes > 0
                    /\ FetchTarget(OutTmpl(t2.output_path)) = t1.output_path)

-----------------------------------------------------------------------------
(* Termination of a run                                                    *)

\* mkdir returns or raises (line 152)
Mkdir == MkdirAndSubmit \/ MkdirRaises

\* The steps of a run are taken when they can be: the loop of
\* process_txt_folder goes on, a free worker takes a queued task, and every
\* call of the Resolver and of the Fetcher returns or raises. Starting the
\* program again is left to the user.
Fairness ==
    /\ WF_vars(StartRun)
    /\ WF_vars(ParseManifest)
    /\ WF_vars(Mkdir)
    /\ WF_vars(\E m \in Manifests, i \in 1..MaxFolderSize : StartTask(m, i))
    /\ WF_vars(\E m \in Manifests, i \in 1..MaxFolderSize : ResolverReturns(m, i))
    /\ WF_vars(\E m \in Manifests, i \in 1..MaxFolderSize : FetchReturns(m, i))
    /\ WF_vars(GatherReturns)

FairSpec == Spec /\ Fairness

\* process_txt_folder has returned or raised
Stopped == pc \in {"done", "aborted"}

\* the manifest whose directory could not be made, if the run ended so
FailedMkdir(m) == escaped = "mkdir" /\ m = cur

\* every track line of every manifest with a playlist name has a task that
\* has ended, the manifest whose directory could not be made left aside
TracksTerminal ==
    \A m \in Manifests :
        (folder[m].kind \in NamedKinds /\ ~FailedMkdir(m))
        => (Len(tasks[m]) = folder[m].n /\ AllDone(m))

\* every run stops, with every task it submitted ended
RunStops == (pc = "start") ~> (Stopped /\ \A id \in TaskIds : TaskOf(id).st = "Done")

\* C19: under that fairness a run that starts comes to its end with every
\* track of every well-formed manifest in a terminal state: no track stays
\* Pending and the pool does not deadlock, with more tracks than workers and
\* with no track. (The tracks of a playlist whose directory could not be
\* made are not asked for: that batch is given up.)
C19_RunTerminates == (pc = "start") ~> (Stopped /\ TracksTerminal)

====
